---- MODULE Spec2Model ----
(***************************************************************************)
(* Model of static/script.js: the browser-side view controller of the coin *)
(* collection.  Three handlers (loadCoins, deleteCoin, the form's submit   *)
(* listener) run on the single event loop; every await splits a handler    *)
(* into steps, and the steps of different handler invocations interleave.  *)
(*                                                                         *)
(* TLA+ strings here are ASCII, so the glyph that opens each status text   *)
(* is written as a bracketed ASCII name: "[warning] " stands for U+26A0    *)
(* U+FE0F and a space, and so on.  The texts after the glyph are verbatim. *)
(***************************************************************************)
EXTENDS Integers, Sequences, FiniteSets, TLC

\* ------------------------------------------------------------------ bounds
MaxRequests == 5    \* requests this page sends, the initial load included

\* A coin variant stands for one (country, denomination, year) triple.
Kinds == {"UK 1p 1985", "US 1c 1990"}
\* The form with its three fields empty.
NoKind == ""

VARIABLES
    coins,          \* backend: the collection, a set of coin records
    tasks,          \* handler invocations suspended at an await
    nReq,           \* number of requests sent so far
    uniqueRows,     \* rows of "#uniqueTable tbody", top to bottom
    duplicateRows,  \* rows of "#duplicateTable tbody"
    uniqueEmpty,    \* textContent of #uniqueEmpty
    duplicateEmpty, \* textContent of #duplicateEmpty
    msg,            \* textContent of #msg
    form,           \* the values typed into #country, #denomination, #year
    dialog,         \* the last run of deleteCoin up to confirm(): the arguments
                    \* of the call, the text shown and the user's answer
    lastData,       \* what res.json() gave the last loadCoins that rendered
    nHalted         \* handlers ended by a rejected await (unhandled rejections)

vars == <<coins, tasks, nReq, uniqueRows, duplicateRows, uniqueEmpty,
          duplicateEmpty, msg, form, dialog, lastData, nHalted>>

\* ------------------------------------------------------- loadCoins, pure part

\* Mutant: the comparator with its operands swapped.
CompareReversed(a, b) == b.id - a.id

\* The comparator handed to data.sort.
Compare(a, b) == a.id - b.id

RECURSIVE Insert(_, _)
Insert(c, s) ==
    IF s = <<>> THEN <<c>>
    ELSE IF Compare(c, Head(s)) <= 0 THEN <<c>> \o s
    ELSE <<Head(s)>> \o Insert(c, Tail(s))

\* data.sort((a, b) => a.id - b.id): a stable sort by the comparator.
RECURSIVE SortById(_)
SortById(data) ==
    IF data = <<>> THEN <<>> ELSE Insert(Head(data), SortById(Tail(data)))

\* Mutant: the filter off by one.
IsDuplicatedFromOne(c) == c.exists_count >= 1

\* data.filter(c => c.exists_count > 1)
IsDuplicated(c) == c.exists_count > 1
DuplicateCoins(data) == SelectSeq(data, IsDuplicated)

\* Mutant: the table bodies are not emptied before the rows are appended.
ClearBodySkipped(rows) == rows

\* uniqueBody.innerHTML = "" and duplicateBody.innerHTML = "": the rows left
\* in a table body.
ClearBody(rows) == <<>>

\* Math.min
Min(a, b) == IF a < b THEN a ELSE b

NoUniqueText == "No unique coins yet."
NoDuplicatesText == "No duplicates yet."

UniqueEmptyText(uniqueCoins) ==
    IF Len(uniqueCoins) = 0 THEN NoUniqueText ELSE ""

DuplicateEmptyText(duplicateCoins) ==
    IF Len(duplicateCoins) = 0 THEN NoDuplicatesText ELSE ""

\* The text of a row's button.
ButtonLabel(coin, isDuplicateRow) ==
    IF coin.exists_count > 1
    THEN (IF isDuplicateRow THEN "Remove duplicate" ELSE "Remove one")
    ELSE "Remove"

\* createRow: the cells of the row, and what its click listener captured
\* (coin.id, coin.exists_count as count, isDuplicateRow).
createRow(coin, displayCount, isDuplicateRow) ==
    [id |-> coin.id,
     kind |-> coin.kind,
     displayCount |-> displayCount,
     label |-> ButtonLabel(coin, isDuplicateRow),
     count |-> coin.exists_count,
     isDuplicateRow |-> isDuplicateRow]

UniqueDisplayCount(coin) == Min(coin.exists_count, 1)
\* Mutant: the duplicate view shows every copy, the first one included.
DuplicateDisplayCountAll(coin) == coin.exists_count
DuplicateDisplayCount(coin) == coin.exists_count - 1

\* uniqueCoins.forEach(coin => uniqueBody.appendChild(createRow(...)))
RenderUnique(uniqueCoins) ==
    [i \in 1..Len(uniqueCoins) |->
        createRow(uniqueCoins[i], UniqueDisplayCount(uniqueCoins[i]), FALSE)]

\* duplicateCoins.forEach(coin => duplicateBody.appendChild(createRow(...)))
RenderDuplicate(duplicateCoins) ==
    [i \in 1..Len(duplicateCoins) |->
        createRow(duplicateCoins[i], DuplicateDisplayCount(duplicateCoins[i]), TRUE)]

\* ------------------------------------------------------------ requests

NoResult == [error |-> "", status |-> "", data |-> <<>>]

\* A handler invocation suspended on its request.  pc "fetch": awaiting
\* fetch(...); pc "json": awaiting res.json().  origin is the request that
\* started the chain this one belongs to (itself for the page load and for a
\* mutation, the mutation for the reload that follows it).
NewTask(n, op, arg, origin) ==
    [id |-> n, op |-> op, pc |-> "fetch", arg |-> arg, origin |-> origin,
     result |-> NoResult]

\* loadCoins up to its first await: fetch("/coins").
loadCoinsCall(n, origin) == NewTask(n, "GET", 0, origin)

\* Mutant: the handler calls loadCoins() without awaiting its own request.
SentWithReload(n, op, arg) == {NewTask(n, op, arg, n), loadCoinsCall(n + 1, n)}

\* What a mutation handler sends before its first await: its one request.
Sent(n, op, arg) == {NewTask(n, op, arg, n)}

IsMutation(t) == t.op \in {"POST", "DELETE"}

\* Room for one more mutation and its reload below MaxRequests, the reloads
\* that the mutations in flight will send counted in.
CanStartMutation ==
    nReq + 2 + Cardinality({t \in tasks : IsMutation(t)}) <= MaxRequests

\* ------------------------------------------------------------ backend

Coin(i, k, c) == [id |-> i, kind |-> k, exists_count |-> c]

\* Collections the backend may hold when the page is opened.
InitCollections ==
    { {},
      {Coin(2, "US 1c 1990", 1)},
      {Coin(1, "UK 1p 1985", 3)},
      {Coin(2, "US 1c 1990", 1), Coin(1, "UK 1p 1985", 3)} }

\* The id the backend gives a new coin: one above the largest id it holds.
Max(S) == CHOOSE x \in S : \A y \in S : y <= x
NextId(collection) == Max({c.id : c \in collection} \cup {0}) + 1

\* The JSON array of GET /coins: the collection in any order.
Orderings(S) ==
    { s \in [1..Cardinality(S) -> S] : \A i, j \in DOMAIN s : i # j => s[i] # s[j] }

Init ==
    /\ coins \in InitCollections
    /\ tasks = {loadCoinsCall(1, 1)}
    /\ nReq = 1
    /\ uniqueRows = <<>>
    /\ duplicateRows = <<>>
    /\ uniqueEmpty = ""
    /\ duplicateEmpty = ""
    /\ msg = ""
    /\ form = NoKind
    /\ dialog = [id |-> 0, count |-> 0, isDuplicateRow |-> FALSE,
                 message |-> "", answer |-> FALSE]
    /\ lastData = [rendered |-> FALSE, data |-> <<>>]
    /\ nHalted = 0

\* GET /coins is served and fetch resolves.
ServeGet(t) ==
    /\ t \in tasks /\ t.op = "GET" /\ t.pc = "fetch"
    /\ \E data \in Orderings(coins) :
          tasks' = (tasks \ {t}) \cup
                   {[t EXCEPT !.pc = "json", !.result.data = data]}
    /\ UNCHANGED <<coins, nReq, uniqueRows, duplicateRows, uniqueEmpty,
                   duplicateEmpty, msg, form, dialog, lastData, nHalted>>

\* loadCoins from the resolution of res.json() to its end.
loadCoinsRender(t) ==
    /\ t \in tasks /\ t.op = "GET" /\ t.pc = "json"
    /\ LET data == SortById(t.result.data)
           uniqueCoins == data
           duplicateCoins == DuplicateCoins(data)
       IN  /\ uniqueEmpty' = UniqueEmptyText(uniqueCoins)
           /\ duplicateEmpty' = DuplicateEmptyText(duplicateCoins)
           /\ uniqueRows' = ClearBody(uniqueRows) \o RenderUnique(uniqueCoins)
           /\ duplicateRows' =
                  ClearBody(duplicateRows) \o RenderDuplicate(duplicateCoins)
    /\ lastData' = [rendered |-> TRUE, data |-> t.result.data]
    /\ tasks' = tasks \ {t}
    /\ UNCHANGED <<coins, nReq, msg, form, dialog, nHalted>>

\* ------------------------------------------------------------ deleteCoin

ConfirmDuplicateText == "Remove one duplicate copy of this coin?"
ConfirmOneText == "Remove one copy of this coin?"
ConfirmCoinText == "Remove this coin from the collection?"

\* Mutant: the two wordings for a coin held more than once are swapped.
ConfirmMessageSwapped(count, isDuplicateRow) ==
    IF count > 1
    THEN (IF isDuplicateRow THEN "Remove one copy of this coin?"
          ELSE "Remove one duplicate copy of this coin?")
    ELSE "Remove this coin from the collection?"

\* The text deleteCoin hands to confirm().
ConfirmMessage(count, isDuplicateRow) ==
    IF count > 1
    THEN (IF isDuplicateRow THEN ConfirmDuplicateText ELSE ConfirmOneText)
    ELSE ConfirmCoinText

WarningMarker == "[warning] "
DeletedText == "[wastebasket] Coin removed."
DecrementedText == "[minus] One copy removed."
AddedText == "[check mark] Coin added to the collection."
IncrementedText == "[plus] Coin count increased."

\* JavaScript truthiness of a string-or-undefined field ("" here is both the
\* empty string and the absent field: either is falsy).
Truthy(field) == field # ""

\* The if / else-if chain of deleteCoin: the new textContent of #msg.
DeleteMsg(result, old) ==
    IF Truthy(result.error) THEN WarningMarker \o result.error
    ELSE IF result.status = "deleted" THEN DeletedText
    ELSE IF result.status = "decremented" THEN DecrementedText
    ELSE old

\* The if / else-if chain of the submit listener.
SubmitMsg(r, old) ==
    IF Truthy(r.error) THEN WarningMarker \o r.error
    ELSE IF r.status = "added" THEN AddedText
    ELSE IF r.status = "incremented" THEN IncrementedText
    ELSE old

\* Mutant: the answer of confirm() is ignored.
ProceedsAlways(answer) == TRUE

\* Whether deleteCoin goes on to fetch after the user answered confirm().
Proceeds(answer) == answer

Rows == {uniqueRows[i] : i \in DOMAIN uniqueRows} \cup
        {duplicateRows[i] : i \in DOMAIN duplicateRows}

\* A click on the button of a row: deleteCoin(coin.id, coin.exists_count,
\* isDuplicateRow) up to its first await.
deleteCoinClick(row, answer) ==
    /\ row \in Rows
    /\ dialog' = [id |-> row.id, count |-> row.count,
                  isDuplicateRow |-> row.isDuplicateRow,
                  message |-> ConfirmMessage(row.count, row.isDuplicateRow),
                  answer |-> answer]
    /\ IF Proceeds(answer)
       THEN /\ CanStartMutation
            /\ tasks' = tasks \cup Sent(nReq + 1, "DELETE", row.id)
            /\ nReq' = nReq + Cardinality(Sent(nReq + 1, "DELETE", row.id))
       ELSE UNCHANGED <<tasks, nReq>>
    /\ UNCHANGED <<coins, uniqueRows, duplicateRows, uniqueEmpty,
                   duplicateEmpty, msg, form, lastData, nHalted>>

\* Mutant: the handler returns early on an error result.
ReloadUnlessError(t, n) ==
    IF t.result.error # "" THEN {} ELSE {loadCoinsCall(n, t.origin)}

\* The requests a mutation handler sends once its result is in: loadCoins().
Reload(t, n) == {loadCoinsCall(n, t.origin)}

\* deleteCoin from the resolution of res.json() to its end, the call of
\* loadCoins up to its fetch included.
deleteCoinResume(t) ==
    /\ t \in tasks /\ t.op = "DELETE" /\ t.pc = "json"
    /\ msg' = DeleteMsg(t.result, msg)
    /\ tasks' = (tasks \ {t}) \cup Reload(t, nReq + 1)
    /\ nReq' = nReq + Cardinality(Reload(t, nReq + 1))
    /\ UNCHANGED <<coins, uniqueRows, duplicateRows, uniqueEmpty,
                   duplicateEmpty, form, dialog, lastData, nHalted>>

\* ------------------------------------------------------------ submit listener

\* Mutant: the form is left as it is.
ResetFormSkipped(old) == old

\* e.target.reset()
ResetForm(old) == NoKind

\* The user submits the form with the values k in its fields (all empty for
\* NoKind): the submit listener up to its first await.
submit(k) ==
    /\ CanStartMutation
    /\ form' = k
    /\ tasks' = tasks \cup Sent(nReq + 1, "POST", form')
    /\ nReq' = nReq + Cardinality(Sent(nReq + 1, "POST", form'))
    /\ UNCHANGED <<coins, uniqueRows, duplicateRows, uniqueEmpty,
                   duplicateEmpty, msg, dialog, lastData, nHalted>>

\* The submit listener from the resolution of res.json() to its end.
submitResume(t) ==
    /\ t \in tasks /\ t.op = "POST" /\ t.pc = "json"
    /\ msg' = SubmitMsg(t.result, msg)
    /\ form' = ResetForm(form)
    /\ tasks' = (tasks \ {t}) \cup Reload(t, nReq + 1)
    /\ nReq' = nReq + Cardinality(Reload(t, nReq + 1))
    /\ UNCHANGED <<coins, uniqueRows, duplicateRows, uniqueEmpty,
                   duplicateEmpty, dialog, lastData, nHalted>>

\* ------------------------------------------------------------ rejections

\* Mutant: the reload sits in a finally block and runs after a rejection too.
HaltThenReload(t) ==
    /\ tasks' = (tasks \ {t}) \cup
                 (IF t.op = "GET" THEN {} ELSE {loadCoinsCall(nReq + 1, t.origin)})
    /\ nReq' = IF t.op = "GET" THEN nReq ELSE nReq + 1
    /\ nHalted' = nHalted + 1
    /\ UNCHANGED <<coins, uniqueRows, duplicateRows, uniqueEmpty,
                   duplicateEmpty, msg, form, dialog, lastData>>

\* What a rejected await leaves of the page: the exception leaves the async
\* function, and nothing after the await runs.
Halt(t) ==
    /\ tasks' = tasks \ {t}
    /\ nHalted' = nHalted + 1
    /\ UNCHANGED <<coins, nReq, uniqueRows, duplicateRows, uniqueEmpty,
                   duplicateEmpty, msg, form, dialog, lastData>>

\* fetch(...) rejects: the backend was not reached.
FetchRejects(t) ==
    /\ t \in tasks /\ t.pc = "fetch"
    /\ Halt(t)

\* res.json() rejects: the body is not JSON.
JsonRejects(t) ==
    /\ t \in tasks /\ t.pc = "json"
    /\ Halt(t)

\* ------------------------------------------------------------ backend, mutations

Answer(t, result) ==
    tasks' = (tasks \ {t}) \cup {[t EXCEPT !.pc = "json", !.result = result]}

\* DELETE /coins/{id} is served and fetch resolves.
ServeDelete(t) ==
    /\ t \in tasks /\ t.op = "DELETE" /\ t.pc = "fetch"
    /\ IF \E c \in coins : c.id = t.arg
       THEN LET c == CHOOSE c \in coins : c.id = t.arg
            IN  IF c.exists_count > 1
                THEN /\ coins' = (coins \ {c}) \cup
                                 {[c EXCEPT !.exists_count = @ - 1]}
                     /\ Answer(t, [NoResult EXCEPT !.status = "decremented"])
                ELSE /\ coins' = coins \ {c}
                     /\ Answer(t, [NoResult EXCEPT !.status = "deleted"])
       ELSE /\ coins' = coins
            /\ Answer(t, [NoResult EXCEPT !.error = "not found"])
    /\ UNCHANGED <<nReq, uniqueRows, duplicateRows, uniqueEmpty,
                   duplicateEmpty, msg, form, dialog, lastData, nHalted>>

\* POST /coins is served and fetch resolves.
ServePost(t) ==
    /\ t \in tasks /\ t.op = "POST" /\ t.pc = "fetch"
    /\ IF t.arg = NoKind
       THEN /\ coins' = coins
            /\ Answer(t, [NoResult EXCEPT !.error = "missing fields"])
       ELSE IF \E c \in coins : c.kind = t.arg
       THEN LET c == CHOOSE c \in coins : c.kind = t.arg
            IN  /\ coins' = (coins \ {c}) \cup
                            {[c EXCEPT !.exists_count = @ + 1]}
                /\ Answer(t, [NoResult EXCEPT !.status = "incremented"])
       ELSE /\ coins' = coins \cup {Coin(NextId(coins), t.arg, 1)}
            /\ Answer(t, [NoResult EXCEPT !.status = "added"])
    /\ UNCHANGED <<nReq, uniqueRows, duplicateRows, uniqueEmpty,
                   duplicateEmpty, msg, form, dialog, lastData, nHalted>>

\* A mutation answered with a JSON object that has neither an error nor one
\* of the documented statuses.
ServeUnexpected(t) ==
    /\ t \in tasks /\ IsMutation(t) /\ t.pc = "fetch"
    /\ Answer(t, [NoResult EXCEPT !.status = "unknown"])
    /\ UNCHANGED <<coins, nReq, uniqueRows, duplicateRows, uniqueEmpty,
                   duplicateEmpty, msg, form, dialog, lastData, nHalted>>

Next ==
    \/ \E t \in tasks : ServeGet(t)
    \/ \E t \in tasks : loadCoinsRender(t)
    \/ \E row \in Rows, answer \in BOOLEAN : deleteCoinClick(row, answer)
    \/ \E t \in tasks : ServeDelete(t)
    \/ \E t \in tasks : deleteCoinResume(t)
    \/ \E k \in Kinds \cup {NoKind} : submit(k)
    \/ \E t \in tasks : ServePost(t)
    \/ \E t \in tasks : ServeUnexpected(t)
    \/ \E t \in tasks : submitResume(t)
    \/ \E t \in tasks : FetchRejects(t)
    \/ \E t \in tasks : JsonRejects(t)

Spec == Init /\ [][Next]_vars

\* ==================================================================== claims

Reloads == {t \in tasks : t.op = "GET" /\ t.origin # t.id}
IdsOf(rows) == [i \in DOMAIN rows |-> rows[i].id]
Ascending(ids) == \A i, j \in DOMAIN ids : i < j => ids[i] < ids[j]

\* C1: after loadCoins rendered a response, every coin of it with
\* exists_count > 1 has a row in the unique view with displayed count 1 and
\* label "Remove one", and a row in the duplicate view with displayed count
\* exists_count - 1 and label "Remove duplicate".
C1_DuplicatedCoinInBothViews ==
    lastData.rendered =>
        \A i \in DOMAIN lastData.data :
            LET c == lastData.data[i]
            IN  c.exists_count > 1 =>
                  /\ \E j \in DOMAIN uniqueRows :
                        /\ uniqueRows[j].id = c.id
                        /\ uniqueRows[j].kind = c.kind
                        /\ uniqueRows[j].displayCount = 1
                        /\ uniqueRows[j].label = "Remove one"
                  /\ \E j \in DOMAIN duplicateRows :
                        /\ duplicateRows[j].id = c.id
                        /\ duplicateRows[j].kind = c.kind
                        /\ duplicateRows[j].displayCount = c.exists_count - 1
                        /\ duplicateRows[j].label = "Remove duplicate"

\* A coin held three times or more is rendered in both views.
C1_Witness ==
    /\ lastData.rendered
    /\ \E i \in DOMAIN uniqueRows, j \in DOMAIN duplicateRows :
          /\ uniqueRows[i].id = duplicateRows[j].id
          /\ uniqueRows[i].label = "Remove one"
          /\ uniqueRows[i].displayCount = 1
          /\ duplicateRows[j].label = "Remove duplicate"
          /\ duplicateRows[j].displayCount >= 2

\* C2: after loadCoins rendered a response, every coin of it with
\* exists_count = 1 has a row in the unique view with displayed count 1 and
\* label "Remove", and no row in the duplicate view.
C2_SingleCoinOnlyInUniqueView ==
    lastData.rendered =>
        \A i \in DOMAIN lastData.data :
            LET c == lastData.data[i]
            IN  c.exists_count = 1 =>
                  /\ \E j \in DOMAIN uniqueRows :
                        /\ uniqueRows[j].id = c.id
                        /\ uniqueRows[j].kind = c.kind
                        /\ uniqueRows[j].displayCount = 1
                        /\ uniqueRows[j].label = "Remove"
                  /\ \A j \in DOMAIN duplicateRows : duplicateRows[j].id # c.id

\* A single coin is rendered next to a duplicated one.
C2_Witness ==
    /\ lastData.rendered
    /\ duplicateRows # <<>>
    /\ \E i \in DOMAIN uniqueRows :
          /\ uniqueRows[i].label = "Remove"
          /\ uniqueRows[i].displayCount = 1
          /\ \A j \in DOMAIN duplicateRows : duplicateRows[j].id # uniqueRows[i].id

\* C3: after loadCoins rendered a response, in whatever order the backend
\* returned the coins, the rows of the unique view are strictly ascending by
\* id, one row per coin, and so are the rows of the duplicate view.
C3_RowsAscendingById ==
    lastData.rendered =>
        /\ Len(uniqueRows) = Len(lastData.data)
        /\ Ascending(IdsOf(uniqueRows))
        /\ Ascending(IdsOf(duplicateRows))

\* A response that came with the larger id first was rendered, two rows in
\* each view.
C3_Witness ==
    /\ lastData.rendered
    /\ Len(lastData.data) >= 2
    /\ lastData.data[1].id > lastData.data[2].id
    /\ Len(uniqueRows) >= 2
    /\ Len(duplicateRows) >= 2

\* C4: after loadCoins rendered a response, each view's placeholder holds its
\* "no entries" text exactly when the view's display set is empty and is the
\* empty text otherwise; the rows of each table are those of the display set,
\* so an empty response leaves both placeholders shown and both tables empty,
\* whatever the tables held before.
C4_PlaceholderIffEmpty ==
    lastData.rendered =>
        LET unique == lastData.data
            duplicates == {i \in DOMAIN lastData.data :
                              lastData.data[i].exists_count > 1}
        IN  /\ uniqueEmpty =
                  (IF unique = <<>> THEN "No unique coins yet." ELSE "")
            /\ duplicateEmpty =
                  (IF duplicates = {} THEN "No duplicates yet." ELSE "")
            /\ Len(uniqueRows) = Len(unique)
            /\ Len(duplicateRows) = Cardinality(duplicates)

\* An empty list was rendered after the last coin was deleted through a row
\* of an earlier render.
C4_Witness ==
    /\ lastData.rendered
    /\ lastData.data = <<>>
    /\ msg = DeletedText
    /\ uniqueRows = <<>> /\ duplicateRows = <<>>
    /\ uniqueEmpty = NoUniqueText /\ duplicateEmpty = NoDuplicatesText

\* C5: the step of deleteCoin that receives the JSON result of its DELETE
\* sets the status message (a non-empty error: the warning marker and the
\* error text; status "deleted": the coin-removed text; status "decremented":
\* the one-copy-removed text) and sends the request of a list reload, after
\* every result, an error included.
C5_DeleteResultThenReload ==
    [][\A t \in tasks :
          (t.op = "DELETE" /\ t.pc = "json" /\ t \notin tasks'
              /\ nHalted' = nHalted)
          => /\ t.result.error # "" => msg' = "[warning] " \o t.result.error
             /\ (t.result.error = "" /\ t.result.status = "deleted")
                   => msg' = "[wastebasket] Coin removed."
             /\ (t.result.error = "" /\ t.result.status = "decremented")
                   => msg' = "[minus] One copy removed."
             /\ \E l \in tasks' : l.op = "GET" /\ l.pc = "fetch" /\ l.id > nReq]_vars

\* A DELETE was answered with an error, the warning is shown and the reload
\* it triggered is in flight.
C5_Witness ==
    /\ msg = "[warning] not found"
    /\ \E l \in Reloads : l.pc = "fetch" /\ l.id = nReq

\* C6: the step of the submit listener that receives the JSON result of its
\* POST resets the form and sends the request of a list reload whatever the
\* result, and sets the status message to the warning marker and the error
\* text, the coin-added text or the count-increased text for an error, "added"
\* and "incremented".
C6_SubmitResultThenResetAndReload ==
    [][\A t \in tasks :
          (t.op = "POST" /\ t.pc = "json" /\ t \notin tasks'
              /\ nHalted' = nHalted)
          => /\ t.result.error # "" => msg' = "[warning] " \o t.result.error
             /\ (t.result.error = "" /\ t.result.status = "added")
                   => msg' = "[check mark] Coin added to the collection."
             /\ (t.result.error = "" /\ t.result.status = "incremented")
                   => msg' = "[plus] Coin count increased."
             /\ form' = NoKind
             /\ \E l \in tasks' : l.op = "GET" /\ l.pc = "fetch" /\ l.id > nReq]_vars

\* A filled-in form was submitted and its POST raised a count: the form is
\* empty again, the count-increased text is shown and the reload is in flight.
C6_Witness ==
    /\ form = NoKind
    /\ msg = IncrementedText
    /\ \E l \in Reloads : l.pc = "fetch" /\ l.id = nReq
    /\ \E c \in coins : c.exists_count > 3

\* C7 as stated: at most one mutation request (POST or DELETE) is in flight
\* at any time.
C7_OneMutationInFlight ==
    Cardinality({t \in tasks : IsMutation(t)}) <= 1

\* C7, amended: the requests of one user action are sequential (no two
\* requests with the same origin are in flight together, and a request in
\* flight that is not the first of its chain is the reload that follows a
\* mutation), while mutations of different user actions may overlap.
C7_OneRequestPerChain ==
    /\ \A t1, t2 \in tasks : t1.origin = t2.origin => t1 = t2
    /\ \A t \in tasks : IsMutation(t) => t.origin = t.id
    /\ \A t \in tasks : t.origin <= t.id

\* A reload that followed one mutation is in flight together with the
\* mutation of another user action.
C7_Witness ==
    \E l \in Reloads : \E m \in tasks : IsMutation(m) /\ m.id < l.id /\ m.origin # l.origin

\* C8: a DELETE request is sent only in a step in which the user accepted the
\* confirmation shown for the row that was clicked, and it is the request for
\* that row's coin; a declined confirmation leaves the requests, the status
\* message and both tables as they were; and the text shown for the clicked
\* row is the duplicate-copy one when its count > 1 and it is a row of the
\* duplicate view, the one-copy one when its count > 1 and it is a row of the
\* unique view, the whole-coin one otherwise.
ExpectedConfirm(count, inDuplicateView) ==
    IF count > 1 /\ inDuplicateView
    THEN "Remove one duplicate copy of this coin?"
    ELSE IF count > 1 THEN "Remove one copy of this coin?"
    ELSE "Remove this coin from the collection?"

\* The row whose button started the last run of deleteCoin is a row of the
\* given table: same coin, same captured count.
ClickedIn(d, rows) ==
    \E i \in DOMAIN rows : rows[i].id = d.id /\ rows[i].count = d.count

C8_ConfirmBeforeDelete ==
    [][/\ \A d \in tasks' :
             (d.op = "DELETE" /\ d.id > nReq) =>
                /\ dialog'.answer
                /\ d.arg = dialog'.id
                /\ (ClickedIn(dialog', uniqueRows)
                      \/ ClickedIn(dialog', duplicateRows))
       /\ (dialog' # dialog /\ ~dialog'.answer) =>
             UNCHANGED <<coins, tasks, nReq, msg, form, uniqueRows,
                         duplicateRows, uniqueEmpty, duplicateEmpty>>
       /\ dialog' # dialog =>
             /\ IF dialog'.isDuplicateRow
                THEN ClickedIn(dialog', duplicateRows)
                ELSE ClickedIn(dialog', uniqueRows)
             /\ dialog'.message =
                   ExpectedConfirm(dialog'.count, dialog'.isDuplicateRow)]_vars

\* The user declined on a duplicate-view row of a coin held more than once,
\* and the page has sent nothing but its first load.
C8_Witness ==
    /\ dialog.isDuplicateRow /\ dialog.count > 1
    /\ ClickedIn(dialog, duplicateRows)
    /\ dialog.message = ConfirmDuplicateText
    /\ ~dialog.answer
    /\ nReq = 1 /\ tasks = {} /\ msg = ""

\* C9: a step in which an await rejects ends that handler and changes
\* nothing else: the status message, the form, both tables and both
\* placeholders are as before, and no request is sent.
C9_RejectionHaltsHandler ==
    [][nHalted' # nHalted =>
          /\ UNCHANGED <<msg, form, uniqueRows, duplicateRows, uniqueEmpty,
                         duplicateEmpty, coins, nReq>>
          /\ tasks' \subseteq tasks
          /\ Cardinality(tasks \ tasks') = 1]_vars

\* The one mutation sent was rejected after rows had been rendered: no
\* reload followed it and the status message is still empty.
C9_Witness ==
    /\ nHalted = 1
    /\ nReq = 2 /\ tasks = {}
    /\ msg = ""
    /\ uniqueRows # <<>>

\* C10 as stated: once nothing is in flight and no request was rejected, the
\* two tables are the rendering of the backend's current collection.
C10_ViewIsCurrentWhenIdle ==
    (tasks = {} /\ nHalted = 0) =>
        \A d \in Orderings(coins) :
            /\ uniqueRows = RenderUnique(SortById(d))
            /\ duplicateRows = RenderDuplicate(DuplicateCoins(SortById(d)))
====
